---- MODULE Spec2Model ----
(***************************************************************************)
(* A model of the mailbox server (nrbnayon/mailbox): the mail routes of    *)
(* backend/src/routes/emails.ts with their Outlook refresh-and-retry, the  *)
(* token service, and the two AI handlers of backend/src/routes/ai.ts.     *)
(***************************************************************************)
EXTENDS Integers, Sequences, FiniteSets, TLC

VARIABLES user, issued, others, req, ai, mbox, mods, calc, db, minted, last,
          ax, batch

mailVars == <<user, issued, others, req>>
aiVars == <<ai>>
labelVars == <<mbox, mods>>
\* what the mail routes above and the AI routes leave alone
pureVars == <<calc>>
authVars == <<db, minted, last>>
frontVars == <<ax>>
batchVars == <<batch>>
restVars == <<labelVars, pureVars, authVars, frontVars, batchVars>>
\* what POST /:id/modify leaves alone
nonLabelVars == <<mailVars, aiVars, pureVars, authVars, frontVars, batchVars>>
\* what the functions applied on their own leave alone
nonPureVars == <<mailVars, aiVars, labelVars, authVars, frontVars, batchVars>>
\* what the sign-in callbacks and the token service leave alone
nonAuthVars == <<mailVars, aiVars, labelVars, pureVars, frontVars, batchVars>>
\* what the front end's axios instance leaves alone
nonFrontVars == <<mailVars, aiVars, labelVars, pureVars, authVars, batchVars>>
\* what POST /batchModify leaves alone
nonBatchVars == <<mailVars, aiVars, labelVars, pureVars, authVars, frontVars>>
vars == <<user, issued, others, req, ai, mbox, mods, calc, db, minted, last,
          ax, batch>>

(***************************************************************************)
(* Bounds of the model.                                                    *)
(***************************************************************************)
\* the most files one request uploads
MaxFiles == 2

\* the most token refreshes other requests of the same user complete while
\* the modelled request runs
MaxOtherRefreshes == 2

\* the most emails the mailbox context of an AI request carries
MaxEmails == 2

\* the most pieces a subject line is made of
MaxSubjectLen == 3

\* the largest resultSizeEstimate the provider reports
MaxEstimate == 45

\* the highest page a caller asks for
MaxPage == 2

\* the most access tokens the providers mint for the user collection
MaxMinted == 3

\* the most parts at the top of a Gmail payload
MaxParts == 2

\* the longest base64 text of an attachment, in characters
MaxBase64Len == 160

(***************************************************************************)
(* The mail routes.                                                        *)
(***************************************************************************)
Providers == {"gmail", "outlook", "yahoo"}

\* The routes modelled: GET /, GET /:id, POST /, POST /:id/reply,
\* POST /:id/forward.
Ops == {"list", "get", "send", "reply", "forward"}

\* The routes behind upload.array("attachments").
SendOps == {"send", "reply", "forward"}

\* What a provider call can answer: success, an authorization failure
\* (statusCode 401), or any other failure.
Outcomes == {"ok", "401", "err"}

\* The awaited provider calls of a route's Outlook branch, in order.
OutlookCalls(op) ==
  CASE op = "list" -> 1
    [] op = "get" -> 2
    [] op = "send" -> 1
    [] op = "reply" -> 2
    [] op = "forward" -> 3

\* The awaited provider calls of a route's Gmail branch, in order (the
\* message gets of a list run under one Promise.all, the attachment gets of
\* a forward under one awaited walk).
GmailCalls(op) ==
  CASE op = "list" -> 2
    [] op = "get" -> 1
    [] op = "send" -> 1
    [] op = "reply" -> 2
    [] op = "forward" -> 3

NumCalls(op, provider) ==
  IF provider = "gmail" THEN GmailCalls(op) ELSE OutlookCalls(op)

\* The number of calls completed when the outgoing message is built (the
\* build is the synchronous code in front of the send call).
BuildPoint(op, provider) == NumCalls(op, provider) - 1

\* A request's record.  attempts[c] lists the attempts of the c-th call, each
\* with the token it was made with and its answer; refreshes[c] counts the
\* refreshTokenByProvider invocations made for it; fresh[c] is the token
\* refreshAccessToken returned for it (0: none); posted counts the token
\* requests sent to the provider.
IdleReq ==
  [pc |-> "idle", op |-> "list", wellFormed |-> TRUE, provider |-> "none",
   call |-> 0, tok |-> 0, files |-> 0, status |-> 0,
   attempts |-> <<>>, refreshes |-> <<>>, fresh |-> <<>>, failedAt |-> "none",
   posted |-> 0]

\* The outer catch of every route: res.status(500).json({error: ...}).
\* Nothing is unlinked there.
CatchStatus == 500

Fail(q, why) ==
  [q EXCEPT !.pc = "done", !.status = CatchStatus, !.failedAt = why]

\* The files left on disk once the provider send has resolved:
\* files.forEach((file) => fs.unlinkSync(file.path)).
UnlinkFiles(q) == 0

\* The synchronous code that follows the q.call-th call's success (call 0:
\* the client's construction): the next call is issued, or the message is
\* built first, or the files are unlinked and the response sent.
Continue(q) ==
  IF q.call = NumCalls(q.op, q.provider)
    THEN [q EXCEPT !.pc = "done", !.status = 200, !.files = UnlinkFiles(q)]
  ELSE IF q.op \in SendOps /\ q.call = BuildPoint(q.op, q.provider)
          /\ ~q.wellFormed
    THEN Fail(q, "build")
  ELSE [q EXCEPT !.pc = "call", !.call = q.call + 1,
                 !.attempts = Append(q.attempts, <<>>),
                 !.refreshes = Append(q.refreshes, 0),
                 !.fresh = Append(q.fresh, 0)]

\* One attempt of the current call, made with the client's token.
Attempt(q, o) ==
  [q EXCEPT !.attempts[q.call] = Append(@, [tok |-> q.tok, res |-> o])]

\* A request arrives; multer has written its files to disk.  wellFormed
\* says whether building the outgoing message throws (a missing "to", an
\* unreadable file).
Receive(op, n, wf) ==
  /\ req.pc = "idle"
  /\ op \notin SendOps => n = 0 /\ wf
  /\ req' = [IdleReq EXCEPT !.pc = "client", !.op = op, !.wellFormed = wf,
                            !.files = n]
  /\ UNCHANGED <<user, issued, others, ai, restVars>>

\* getEmailClient, then the route's code up to its first await.
GetEmailClient ==
  /\ req.pc = "client"
  /\ req' =
       IF user.provider = "outlook"
         THEN IF user.microsoftAccessToken = 0
                THEN Fail(req, "client")
                ELSE Continue([req EXCEPT !.provider = "outlook",
                                          !.tok = user.microsoftAccessToken])
       ELSE IF user.provider = "gmail"
         THEN IF user.googleAccessToken = 0
                THEN Fail(req, "client")
                ELSE Continue([req EXCEPT !.provider = "gmail",
                                          !.tok = user.googleAccessToken])
       ELSE Fail(req, "client")
  /\ UNCHANGED <<user, issued, others, ai, restVars>>

\* Whether the inner catch of a call refreshes and retries:
\* error.statusCode === 401 && emailClient.refreshAccessToken.
RetriesOn(q, o) == o = "401" /\ q.provider = "outlook"

\* The first attempt of the current call.
ProviderCall(o) ==
  /\ req.pc = "call"
  /\ LET q == Attempt(req, o) IN
     req' = IF o = "ok" THEN Continue(q)
            ELSE IF RetriesOn(q, o) THEN [q EXCEPT !.pc = "refresh"]
            ELSE Fail(q, "call")
  /\ UNCHANGED <<user, issued, others, ai, restVars>>

\* What a successful token request stores: the new access token always, the
\* refresh token only when the answer carries one (rot).
StoreTokens(u, new, rot) ==
  [u EXCEPT !.microsoftAccessToken = new,
            !.refreshToken = IF rot THEN new ELSE @]

\* A token service that goes to the provider whatever the user holds.
HasRefreshToken_Unchecked(u) == TRUE

\* if (!user.refreshToken) throw, negated
HasRefreshToken(u) == u.refreshToken # 0

\* refreshTokenByProvider(userId, "outlook") as refreshAccessToken calls it:
\* no stored refresh token throws before any token request; otherwise the
\* request is sent, the token endpoint answers (o) and the tokens are
\* stored.
RefreshTokenByProvider(o, rot) ==
  /\ req.pc = "refresh"
  /\ LET q == [req EXCEPT !.refreshes[req.call] = @ + 1] IN
     IF ~HasRefreshToken(user)
       THEN /\ req' = Fail(q, "refresh")
            /\ UNCHANGED <<user, issued>>
     ELSE IF o # "ok"
       THEN /\ req' = Fail([q EXCEPT !.posted = @ + 1], "refresh")
            /\ UNCHANGED <<user, issued>>
       ELSE /\ issued' = issued + 1
            /\ user' = StoreTokens(user, issued + 1, rot)
            /\ req' = [q EXCEPT !.pc = "reread", !.posted = @ + 1]
  /\ UNCHANGED <<others, ai, restVars>>

\* Another request of the same user completes its own refresh meanwhile:
\* the user record is the one state the requests share.
OtherRequestRefresh(rot) ==
  /\ others < MaxOtherRefreshes
  /\ req.pc \notin {"idle", "done"}
  /\ user.provider = "outlook"
  /\ user.refreshToken # 0
  /\ others' = others + 1
  /\ issued' = issued + 1
  /\ user' = StoreTokens(user, issued + 1, rot)
  /\ UNCHANGED <<req, ai, restVars>>

\* The rebuilt client keeps the token the first client had.
RebuiltToken_Stale(q, newAccessToken) == q.tok

\* The token the rebuilt client carries: the one refreshAccessToken
\* returned (Client.init with done(null, newAccessToken)).
RebuiltToken(q, newAccessToken) == newAccessToken

\* The rest of refreshAccessToken: the user is read again and its
\* microsoftAccessToken returned; the route rebuilds graphClient with it.
RereadUser ==
  /\ req.pc = "reread"
  /\ req' =
       IF user.microsoftAccessToken = 0
         THEN Fail(req, "refresh")
         ELSE [req EXCEPT !.pc = "retry",
                          !.fresh[req.call] = user.microsoftAccessToken,
                          !.tok = RebuiltToken(req, user.microsoftAccessToken)]
  /\ UNCHANGED <<user, issued, others, ai, restVars>>

\* The retried call's answer is thrown away.
AfterRetry_Discarded(q, o) == Fail(q, "retry")

\* What the route does with the retried call's answer: the retry stands in
\* the inner catch block, so whatever it throws reaches the outer catch.
AfterRetry(q, o) == IF o = "ok" THEN Continue(q) ELSE Fail(q, "retry")

\* The retried call.
RetryCall(o) ==
  /\ req.pc = "retry"
  /\ req' = AfterRetry(Attempt(req, o), o)
  /\ UNCHANGED <<user, issued, others, ai, restVars>>

InitUser ==
  \E p \in Providers, hasTok \in BOOLEAN, hasRefresh \in BOOLEAN :
    user = [provider |-> p,
            googleAccessToken |-> IF p = "gmail" /\ hasTok THEN 1 ELSE 0,
            microsoftAccessToken |-> IF p = "outlook" /\ hasTok THEN 1 ELSE 0,
            yahooAccessToken |-> IF p = "yahoo" /\ hasTok THEN 1 ELSE 0,
            refreshToken |-> IF hasRefresh THEN 1 ELSE 0]

(***************************************************************************)
(* The AI routes: POST /process of backend/src/routes/ai.ts ("ai.ts") and  *)
(* the POST /process built on handleEmailQuery ("handleEmailQuery").       *)
(***************************************************************************)
\* availableModels, in order: id and apiType.
availableModels ==
  << [id |-> "mixtral-8x7b-32768", apiType |-> "groq"],
     [id |-> "llama-3-70b", apiType |-> "groq"],
     [id |-> "llama-3.1-8b-instant", apiType |-> "groq"],
     [id |-> "gemma-7b", apiType |-> "groq"],
     [id |-> "deepseek-coder", apiType |-> "deepseek"],
     [id |-> "deepseek-chat", apiType |-> "deepseek"],
     [id |-> "distil-whisper-large-v3-en", apiType |-> "huggingface"],
     [id |-> "gemma2-9b-it", apiType |-> "groq"],
     [id |-> "llama-3.3-70b-versatile", apiType |-> "meta"],
     [id |-> "llama-guard-3-8b", apiType |-> "meta"],
     [id |-> "llama3-70b-8192", apiType |-> "meta"],
     [id |-> "llama3-8b-8192", apiType |-> "meta"],
     [id |-> "whisper-large-v3", apiType |-> "openai"],
     [id |-> "whisper-large-v3-turbo", apiType |-> "openai"] >>

CatalogIds == {availableModels[i].id : i \in 1..Len(availableModels)}

NoModel == [id |-> "none", apiType |-> "none"]

\* availableModels.find((model) => model.id === id)
getModelById(id) ==
  LET S == {i \in 1..Len(availableModels) : availableModels[i].id = id}
  IN IF S = {} THEN NoModel
     ELSE availableModels[CHOOSE i \in S : \A j \in S : i <= j]

\* modelConfig.fallbackChain
fallbackChain == <<"llama3-70b-8192", "llama-3.1-8b-instant", "gemma2-9b-it">>

\* The groqModelMap of tryModel: the Groq model a model id is sent as
\* ("none": the id is not a key of the map).
groqModelMap(id) ==
  CASE id = "llama-3-70b" -> "llama3-70b-8192"
    [] id = "gemma-7b" -> "gemma2-9b-it"
    [] id \in {"mixtral-8x7b-32768", "llama-3.3-70b-versatile",
               "llama-3.1-8b-instant", "gemma2-9b-it", "llama-guard-3-8b",
               "llama3-70b-8192", "llama3-8b-8192", "whisper-large-v3",
               "whisper-large-v3-turbo", "distil-whisper-large-v3-en"} -> id
    [] OTHER -> "none"

\* The groqModelMap of ai.ts, with its default:
\* groqModelMap[model.id] || "llama-3.1-8b-instant".
groqModelMapAiTs(id) ==
  CASE id \in {"mixtral-8x7b-32768", "llama-3.1-8b-instant",
               "gemma2-9b-it"} -> id
    [] id \in {"llama-3-70b", "llama-3.3-70b-versatile",
               "llama3-70b-8192"} -> "llama-3-70b-instruct"
    [] id = "gemma-7b" -> "gemma-7b-it"
    [] id \in {"deepseek-coder", "deepseek-chat", "whisper-large-v3",
               "whisper-large-v3-turbo", "distil-whisper-large-v3-en"} ->
         "mixtral-8x7b-32768"
    [] id \in {"llama-guard-3-8b", "llama3-8b-8192"} -> "llama-3.1-8b-instant"
    [] OTHER -> "llama-3.1-8b-instant"

\* const fallbackModel = "mixtral-8x7b-32768" of ai.ts
fallbackModel == "mixtral-8x7b-32768"

Handlers == {"ai.ts", "handleEmailQuery"}

\* The query texts a request carries: empty, blank, and a real one.
Contents == {"", " ", "summarize"}

\* String.prototype.trim on the texts above.
Trim(c) == IF c = " " THEN "" ELSE c

\* The model ids a request names: the catalog's and one outside it.
RequestedIds == CatalogIds \cup {"gpt-unknown"}

\* What a model call answers: a completion, a completion without content,
\* or an error.
ModelOutcomes == {"ok", "empty", "fail"}

\* An AI request's record.  tried lists the model attempts in order: the
\* candidate id, the API and model the call went to, whether a network call
\* was made, and its answer.
IdleAI ==
  [pc |-> "idle", handler |-> "ai.ts", content |-> "", modelId |-> "none",
   emails |-> 0, keyConfigured |-> TRUE, tried |-> <<>>, next |-> 0,
   status |-> 0, model |-> "none", fallbackUsed |-> FALSE,
   fallbackReason |-> "", text |-> "none"]

Tried(id, api, model, sent, res) ==
  [id |-> id, api |-> api, model |-> model, sent |-> sent, res |-> res]

Respond(a, status, model, text) ==
  [a EXCEPT !.pc = "done", !.status = status, !.model = model, !.text = text]

\* A request arrives.  keyConfigured says whether the API key of the
\* requested model's apiType is set in the environment.
ReceiveAI(h, c, id, n, key) ==
  /\ ai.pc = "idle"
  /\ getModelById(id).apiType \in {"groq", "none"} => key
  /\ ai' = [IdleAI EXCEPT !.pc = "start", !.handler = h, !.content = c,
                          !.modelId = id, !.emails = n, !.keyConfigured = key]
  /\ UNCHANGED <<mailVars, restVars>>

(* ai.ts *)

\* The route up to its first await: the catalog lookup and the branches of
\* the switch that make no call.
AiTsStart ==
  /\ ai.pc = "start" /\ ai.handler = "ai.ts"
  /\ LET model == getModelById(ai.modelId) IN
     ai' = IF model = NoModel
             THEN Respond(ai, 400, "none", "Invalid model selected")
           ELSE IF model.apiType = "groq"
             THEN [ai EXCEPT !.pc = "groq"]
           ELSE IF ~ai.keyConfigured
             THEN [ai EXCEPT !.pc = "groq", !.fallbackUsed = TRUE,
                             !.fallbackReason = "API key not configured"]
           ELSE [ai EXCEPT !.pc = "primary"]
  /\ UNCHANGED <<mailVars, restVars>>

\* The call to the model's own API (deepseek, meta, openai, huggingface): an
\* answer without content becomes a canned text, an error a fallbackReason.
AiTsPrimary(o) ==
  /\ ai.pc = "primary" /\ ai.handler = "ai.ts"
  /\ LET model == getModelById(ai.modelId)
         a == [ai EXCEPT !.tried =
                 Append(@, Tried(model.id, model.apiType, model.id, TRUE, o))]
     IN ai' = IF o = "fail"
                THEN [a EXCEPT !.pc = "groq", !.fallbackUsed = TRUE,
                               !.fallbackReason = "API error"]
                ELSE Respond(a, 200, model.id,
                             IF o = "ok" THEN "answer" ELSE "canned")
  /\ UNCHANGED <<mailVars, restVars>>

\* What ai.ts answers when the Groq call throws:
\* res.status(500).json({error: "Failed to process with Groq API"}).
GroqErrorStatus == 500

\* The Groq call, as the primary choice or as the fallback.
AiTsGroq(o) ==
  /\ ai.pc = "groq" /\ ai.handler = "ai.ts"
  /\ LET model == getModelById(ai.modelId)
         groqModel == IF ai.fallbackUsed THEN fallbackModel
                      ELSE groqModelMapAiTs(model.id)
         a == [ai EXCEPT !.tried =
                 Append(@, Tried(IF ai.fallbackUsed THEN groqModel
                                 ELSE model.id, "groq", groqModel, TRUE, o))]
     IN ai' = IF o = "fail"
                THEN Respond(a, GroqErrorStatus, "none",
                             "Failed to process with Groq API")
                ELSE Respond(a, 200,
                             IF ai.fallbackUsed THEN groqModel ELSE model.id,
                             IF o = "ok" THEN "answer" ELSE "canned")
  /\ UNCHANGED <<mailVars, restVars>>

(* handleEmailQuery *)

\* validateRequest: the error text, or "" for a valid request.
validateRequest(a) ==
  IF Trim(a.content) = "" THEN "Query is required"
  ELSE IF a.emails = 0 THEN "Email context is required"
  ELSE ""

\* The route up to its first await: validation, then handleEmailQuery
\* builds the prompt and starts with the requested model.
QueryStart ==
  /\ ai.pc = "start" /\ ai.handler = "handleEmailQuery"
  /\ ai' = IF validateRequest(ai) # ""
             THEN Respond(ai, 400, "none", validateRequest(ai))
             ELSE [ai EXCEPT !.pc = "try", !.next = 0]
  /\ UNCHANGED <<mailVars, restVars>>

\* tryModel(modelId, prompt): null without a call when the id is not a key
\* of groqModelMap, null when the call throws or carries no content.
tryModel(id, o) ==
  IF groqModelMap(id) = "none"
    THEN Tried(id, "none", "none", FALSE, "fail")
    ELSE Tried(id, "groq", groqModelMap(id), TRUE, o)

\* The chain walked from its last model to its first.
Candidate_Reversed(a, i) ==
  IF i = 0 THEN a.modelId ELSE fallbackChain[Len(fallbackChain) + 1 - i]

\* The candidate handleEmailQuery tries at position i: the requested model
\* (0), then the fallback chain in order.
Candidate(a, i) == IF i = 0 THEN a.modelId ELSE fallbackChain[i]

\* A walk that starts the chain over when its last model has failed.
AfterTry_Restarting(a, t) ==
  LET b == [a EXCEPT !.tried = Append(@, t)] IN
  IF t.res = "ok"
    THEN Respond(b, 200, t.id, "answer")
  ELSE IF a.next < Len(fallbackChain)
    THEN [b EXCEPT !.next = a.next + 1, !.fallbackUsed = TRUE]
  ELSE [b EXCEPT !.next = 1, !.fallbackUsed = TRUE]

\* What handleEmailQuery does once the candidate at a.next has answered t:
\* the first response ends the walk; after the last candidate it apologises.
AfterTry(a, t) ==
  LET b == [a EXCEPT !.tried = Append(@, t)] IN
  IF t.res = "ok"
    THEN Respond(b, 200, t.id, "answer")
  ELSE IF a.next < Len(fallbackChain)
    THEN [b EXCEPT !.next = a.next + 1, !.fallbackUsed = TRUE]
  ELSE [Respond(b, 200, "none", "apology") EXCEPT !.fallbackUsed = TRUE]

\* One awaited tryModel of handleEmailQuery.
QueryTry(o) ==
  /\ ai.pc = "try" /\ ai.handler = "handleEmailQuery"
  /\ groqModelMap(Candidate(ai, ai.next)) = "none" => o = "fail"
  /\ ai' = AfterTry(ai, tryModel(Candidate(ai, ai.next), o))
  /\ UNCHANGED <<mailVars, restVars>>

(***************************************************************************)
(* POST /:id/modify: the labels of one message at the provider, and the    *)
(* modify requests in flight for it.                                       *)
(***************************************************************************)
LabelIds == {"STARRED", "INBOX"}

\* The modify requests that may be in flight together.
ModIds == {"m1", "m2"}

IdleMod == [pc |-> "idle", add |-> {}, remove |-> {}, before |-> {},
            began |-> 0, read |-> {}, categories |-> {}, wrote |-> 0,
            status |-> 0, labelIds |-> {}]

\* The message before any request: its labels, the number of writes the
\* provider has applied, and whether Gmail's modify removes before it adds.
IdleMbox == [labels |-> {}, writes |-> 0, removesFirst |-> TRUE]

\* A route's outer catch.
FailMod(m) == [mods EXCEPT ![m].pc = "done", ![m].status = CatchStatus]

ModifyReceive(m, add, remove) ==
  /\ mods[m].pc = "idle"
  /\ mods' = [mods EXCEPT ![m] = [IdleMod EXCEPT !.pc = "client", !.add = add,
                                                 !.remove = remove,
                                                 !.before = mbox.labels,
                                                 !.began = mbox.writes]]
  /\ UNCHANGED <<nonLabelVars, mbox>>

\* getEmailClient as the modify route calls it.
ModifyClient(m) ==
  /\ mods[m].pc = "client"
  /\ mods' =
       IF user.provider = "outlook" /\ user.microsoftAccessToken # 0
         THEN [mods EXCEPT ![m].pc = "get"]
       ELSE IF user.provider = "gmail" /\ user.googleAccessToken # 0
         THEN [mods EXCEPT ![m].pc = "gmail"]
       ELSE FailMod(m)
  /\ UNCHANGED <<nonLabelVars, mbox>>

\* gmail.users.messages.modify at the provider: one call that removes and
\* adds, in the provider's order.
GmailLabels(cur, add, remove) ==
  IF mbox.removesFirst THEN (cur \ remove) \cup add
                       ELSE (cur \cup add) \ remove

GmailModify(m, o) ==
  /\ mods[m].pc = "gmail"
  /\ IF o = "ok"
       THEN LET new == GmailLabels(mbox.labels, mods[m].add, mods[m].remove) IN
            /\ mbox' = [mbox EXCEPT !.labels = new, !.writes = @ + 1]
            /\ mods' = [mods EXCEPT ![m].pc = "done", ![m].status = 200,
                                    ![m].wrote = mbox.writes + 1,
                                    ![m].labelIds = new]
       ELSE /\ mods' = FailMod(m)
            /\ UNCHANGED mbox
  /\ UNCHANGED nonLabelVars

\* The labels a second application of the same request would undo.
Categories_Toggled(read, add, remove) ==
  ((read \ remove) \cup add) \ (read \cap add)

\* categories.filter(not in removeLabelIds), then the union with
\* addLabelIds.
Categories(read, add, remove) == (read \ remove) \cup add

\* GET /me/messages/:id, with the route's refresh and retry on 401 folded
\* into the outcome.
OutlookGet(m, o) ==
  /\ mods[m].pc = "get"
  /\ mods' =
       IF o = "ok"
         THEN [mods EXCEPT ![m].pc = "patch", ![m].read = mbox.labels,
                           ![m].categories =
                              Categories(mbox.labels, mods[m].add,
                                         mods[m].remove)]
         ELSE FailMod(m)
  /\ UNCHANGED <<nonLabelVars, mbox>>

\* A write that keeps what the message carried.
Patched_Merged(cur, categories) == cur \cup categories

\* PATCH {categories}: the provider replaces the message's categories.
Patched(cur, categories) == categories

OutlookPatch(m, o) ==
  /\ mods[m].pc = "patch"
  /\ IF o = "ok"
       THEN /\ mbox' = [mbox EXCEPT
                          !.labels = Patched(mbox.labels, mods[m].categories),
                          !.writes = @ + 1]
            /\ mods' = [mods EXCEPT ![m].pc = "done", ![m].status = 200,
                                    ![m].wrote = mbox.writes + 1,
                                    ![m].labelIds = mods[m].categories]
       ELSE /\ mods' = FailMod(m)
            /\ UNCHANGED mbox
  /\ UNCHANGED nonLabelVars

\* The user collection before any sign-in: email is unique and keys it.
Emails == {"a@x", "b@x"}

NoUser == [exists |-> FALSE, provider |-> "none", googleAccessToken |-> 0,
           microsoftAccessToken |-> 0, yahooAccessToken |-> 0,
           refreshToken |-> 0]

\* No operation on the collection yet.
NoOp == [op |-> "none", email |-> "none", provider |-> "none", ok |-> FALSE,
         rot |-> FALSE, tok |-> 0, before |-> [e \in Emails |-> NoUser]]

InitAuthVars ==
  /\ db = [e \in Emails |-> NoUser]
  /\ minted = 0
  /\ last = NoOp

InitLabelVars ==
  /\ mbox = IdleMbox
  /\ mods = [m \in ModIds |-> IdleMod]

\* The requests the front end makes through the axios instance.
MaxRequests == 3

Reqs == 1..MaxRequests

\* The module state of axios.ts and the requests' configs before any
\* request is made: pc is where the request's promise stands, sends the
\* times it went to the server, error what it was rejected with.
IdleAx ==
  [isRefreshing |-> FALSE, refreshSubscribers |-> <<>>, posts |-> 0,
   login |-> FALSE,
   event |-> [kind |-> "none", waiting |-> {}],
   reqs |-> [r \in Reqs |->
               [pc |-> "new", retry |-> FALSE, sends |-> 0, error |-> "none",
                subscribed |-> 0, notified |-> 0]]]

\* The messages of the Outlook mailbox POST /batchModify works on.
MaxIds == 2

MsgIds == {"e1", "e2"}

\* No batch request received yet.
IdleBatch ==
  [pc |-> "idle", ids |-> <<>>, add |-> {}, remove |-> {}, i |-> 0,
   categories |-> {}, retried |-> FALSE, calls |-> 0, status |-> 0,
   failedAt |-> 0,
   store |-> [m \in MsgIds |-> {}], before |-> [m \in MsgIds |-> {}]]

InitClientVars == ax = IdleAx /\ batch = IdleBatch

\* No function applied yet.
IdleCalc == [fn |-> "none", arg |-> <<>>, out |-> <<>>]

InitRest == InitLabelVars /\ calc = IdleCalc /\ InitAuthVars /\ InitClientVars

InitLabels ==
  /\ InitUser
  /\ user.refreshToken = 1
  /\ issued = 1
  /\ others = 0
  /\ req = IdleReq
  /\ ai = IdleAI
  /\ \E l \in SUBSET LabelIds, rf \in BOOLEAN :
       mbox = [IdleMbox EXCEPT !.labels = l, !.removesFirst = rf]
  /\ mods = [m \in ModIds |-> IdleMod]
  /\ calc = IdleCalc
  /\ InitAuthVars
  /\ InitClientVars

NextLabels ==
  \/ \E m \in ModIds, add \in SUBSET LabelIds, remove \in SUBSET LabelIds :
        ModifyReceive(m, add, remove)
  \/ \E m \in ModIds : ModifyClient(m)
  \/ \E m \in ModIds, o \in {"ok", "err"} : GmailModify(m, o)
  \/ \E m \in ModIds, o \in {"ok", "err"} : OutlookGet(m, o)
  \/ \E m \in ModIds, o \in {"ok", "err"} : OutlookPatch(m, o)

SpecLabels == InitLabels /\ [][NextLabels]_vars

(***************************************************************************)
(* The subject of a reply and of a forward.  A subject is a sequence of    *)
(* pieces: prefixes as they are written, and other text.                   *)
(***************************************************************************)
SubjectPieces == {"Re: ", "RE: ", "Re:", "Fwd: ", "Launch plan"}

Subjects == UNION {[1..n -> SubjectPieces] : n \in 0..MaxSubjectLen}

\* /^Re: /i and /^Fwd: /i at the start of the subject.
MatchesRe(s) == Len(s) >= 1 /\ s[1] \in {"Re: ", "RE: "}

MatchesFwd(s) == Len(s) >= 1 /\ s[1] \in {"Fwd: "}

\* subject.replace(/^Re: /i, ""): the one match at the start is removed.
ReplaceRe(s) == IF MatchesRe(s) THEN Tail(s) ELSE s

ReplaceFwd(s) == IF MatchesFwd(s) THEN Tail(s) ELSE s

\* `Re: ${subject.replace(/^Re: /i, "")}`
ReplySubject(s) == <<"Re: ">> \o ReplaceRe(s)

\* `Fwd: ${subject.replace(/^Fwd: /i, "")}`
ForwardSubject(s) == <<"Fwd: ">> \o ReplaceFwd(s)

ReplyTo(s) ==
  /\ calc.fn = "none"
  /\ calc' = [fn |-> "reply", arg |-> s, out |-> ReplySubject(s)]
  /\ UNCHANGED nonPureVars

Forward(s) ==
  /\ calc.fn = "none"
  /\ calc' = [fn |-> "forward", arg |-> s, out |-> ForwardSubject(s)]
  /\ UNCHANGED nonPureVars

InitSubject ==
  /\ InitUser
  /\ user.provider = "gmail" /\ user.googleAccessToken = 1
  /\ user.refreshToken = 1
  /\ issued = 1
  /\ others = 0
  /\ req = IdleReq
  /\ ai = IdleAI
  /\ InitRest

NextSubject ==
  \/ \E s \in Subjects : ReplyTo(s)
  \/ \E s \in Subjects : Forward(s)

SpecSubject == InitSubject /\ [][NextSubject]_vars

(***************************************************************************)
(* getEmails of the web client, in src/lib/api.ts ("api.ts") and in its    *)
(* pageSize variant ("part_007"), up to the request the server receives.   *)
(***************************************************************************)
ApiVariants == {"api.ts", "part_007"}

\* params.filter; "" is a filter left out.
FilterNames == {"", "unread", "starred", "sent", "archived", "trash",
                "important", "draft", "spam", "promotions"}

\* params.query; "" is a query left out.
Queries == {"", "otp", "sent otp"}

\* params.pageSize; 0 is a pageSize left out.
PageSizes == {0, 10, 20}

\* The keys of filterMapping.
FilterKeys(variant) ==
  IF variant = "api.ts"
    THEN {"unread", "starred", "sent", "archived", "trash", "important",
          "draft", "spam"}
    ELSE {"unread", "starred", "sent", "archived", "trash"}

filterMapping(filter) ==
  CASE filter = "unread" -> <<"UNREAD">>
    [] filter = "starred" -> <<"STARRED">>
    [] filter = "sent" -> <<"SENT">>
    [] filter = "archived" -> <<>>
    [] filter = "trash" -> <<"TRASH">>
    [] filter = "important" -> <<"IMPORTANT">>
    [] filter = "draft" -> <<"DRAFT">>
    [] filter = "spam" -> <<"SPAM">>

\* undefined, as a value.
Undefined == [defined |-> FALSE, ids |-> <<>>]

Defined(ids) == [defined |-> TRUE, ids |-> ids]

\* filter ? filterMapping[filter] || ["INBOX"] : undefined; an empty array
\* is truthy.
getLabelIdsForFilter(variant, filter) ==
  IF filter = "" THEN Undefined
  ELSE IF filter \in FilterKeys(variant) THEN Defined(filterMapping(filter))
  ELSE Defined(<<"INBOX">>)

\* QueryAnalyzer.analyze(content).folder
AnalyzedFolder(query) == IF query = "sent otp" THEN "SENT" ELSE "INBOX"

\* The label: keywords getEmails of api.ts puts into q.
QueryLabels(query) ==
  IF query = "" THEN <<>>
  ELSE getLabelIdsForFilter("api.ts", AnalyzedFolder(query)).ids

FixedMaxResults == 10

DefaultPageSize == 20

\* Math.ceil(a / b) for b > 0.
Ceil(a, b) == (a + b - 1) \div b

\* What getEmails asks of GET /api/emails: the labels that restrict the
\* provider query (labelIds and the label: keywords of q) and maxResults.
Request(variant, p) ==
  IF variant = "api.ts"
    THEN [labels |-> QueryLabels(p.query), maxResults |-> FixedMaxResults]
    ELSE [labels |->
            (IF getLabelIdsForFilter(variant, p.filter).defined
               THEN getLabelIdsForFilter(variant, p.filter).ids ELSE <<>>),
          maxResults |->
            (IF p.pageSize # 0 THEN p.pageSize ELSE DefaultPageSize)]

\* What getEmails returns for the server's resultSizeEstimate; the
\* provider returns at most maxResults messages.
Response(variant, p, estimate) ==
  LET r == Request(variant, p) IN
  [items |-> IF estimate < r.maxResults THEN estimate ELSE r.maxResults,
   totalPages |->
     (IF variant = "api.ts" THEN Ceil(estimate, FixedMaxResults)
      ELSE Ceil(estimate,
                IF p.pageSize # 0 THEN p.pageSize ELSE DefaultPageSize)),
   currentPage |-> IF p.page # 0 THEN p.page ELSE 1]

getEmails(variant, p, estimate) ==
  /\ calc.fn = "none"
  /\ calc' = [fn |-> "getEmails",
              arg |-> [variant |-> variant, params |-> p,
                       estimate |-> estimate],
              out |-> [request |-> Request(variant, p),
                       response |-> Response(variant, p, estimate)]]
  /\ UNCHANGED nonPureVars

NextGetEmails ==
  \E variant \in ApiVariants, q \in Queries, f \in FilterNames,
     pg \in 0..MaxPage, ps \in PageSizes, estimate \in 0..MaxEstimate :
       getEmails(variant,
                 [query |-> q, filter |-> f, page |-> pg, pageSize |-> ps],
                 estimate)

SpecGetEmails == InitSubject /\ [][NextGetEmails]_vars

(***************************************************************************)
(* The user collection: the OAuth callbacks that create and update         *)
(* records, the token service, and the token event of a Gmail client.      *)
(* email is unique, so the collection is keyed by it; a provider's account *)
(* id is one per email.                                                    *)
(***************************************************************************)
\* A record with the access token of provider p set.
WithAccessToken(u, p, tok) ==
  CASE p = "gmail" -> [u EXCEPT !.googleAccessToken = tok]
    [] p = "outlook" -> [u EXCEPT !.microsoftAccessToken = tok]
    [] p = "yahoo" -> [u EXCEPT !.yahooAccessToken = tok]

\* Whether the callback of provider p stores the response's refresh token:
\* the Microsoft callback stores none.
KeepsRefresh(p, rot) == rot /\ p # "outlook"

\* A callback that takes over the record another provider created.
AfterCallback_Relinked(u, p, tok, rot) ==
  IF ~u.exists \/ u.provider # p
    THEN [WithAccessToken(NoUser, p, tok) EXCEPT
            !.exists = TRUE, !.provider = p,
            !.refreshToken = IF KeepsRefresh(p, rot) THEN tok ELSE 0]
  ELSE [WithAccessToken(u, p, tok) EXCEPT
          !.refreshToken = IF KeepsRefresh(p, rot) THEN tok ELSE @]

\* User.findOne by the provider's account id, then User.create or the
\* update of the record found; User.create fails on an email in use.
AfterCallback(u, p, tok, rot) ==
  IF ~u.exists
    THEN [WithAccessToken(NoUser, p, tok) EXCEPT
            !.exists = TRUE, !.provider = p,
            !.refreshToken = IF KeepsRefresh(p, rot) THEN tok ELSE 0]
  ELSE IF u.provider = p
    THEN [WithAccessToken(u, p, tok) EXCEPT
            !.refreshToken = IF KeepsRefresh(p, rot) THEN tok ELSE @]
  ELSE u

OAuthCallback(e, p, o, rot) ==
  /\ minted < MaxMinted
  /\ IF o = "ok"
       THEN /\ minted' = minted + 1
            /\ db' = [db EXCEPT ![e] = AfterCallback(@, p, minted + 1, rot)]
       ELSE UNCHANGED <<db, minted>>
  /\ last' = [op |-> "callback", email |-> e, provider |-> p,
              ok |-> (o = "ok" /\ (db[e].exists => db[e].provider = p)),
              rot |-> rot, tok |-> IF o = "ok" THEN minted + 1 ELSE 0,
              before |-> db]
  /\ UNCHANGED nonAuthVars

\* A refresh that replaces the refresh token every time.
Refreshed_AlwaysRotated(u, p, tok, rot) ==
  [WithAccessToken(u, p, tok) EXCEPT !.refreshToken = tok]

\* refreshGoogleToken, refreshMicrosoftToken, refreshYahooToken: the access
\* token of the provider, and the refresh token when the response has one.
Refreshed(u, p, tok, rot) ==
  [WithAccessToken(u, p, tok) EXCEPT !.refreshToken = IF rot THEN tok ELSE @]

\* refreshTokenByProvider(userId, provider)
RefreshByProvider(e, p, o, rot) ==
  /\ minted < MaxMinted
  /\ LET ok == db[e].exists /\ db[e].refreshToken # 0 /\ o = "ok" IN
     /\ IF ok
          THEN /\ minted' = minted + 1
               /\ db' = [db EXCEPT ![e] = Refreshed(@, p, minted + 1, rot)]
          ELSE UNCHANGED <<db, minted>>
     /\ last' = [op |-> "refresh", email |-> e, provider |-> p, ok |-> ok,
                 rot |-> rot, tok |-> IF ok THEN minted + 1 ELSE 0,
                 before |-> db]
  /\ UNCHANGED nonAuthVars

\* oauth2Client.on("tokens") while a mail operation of a Gmail user runs.
GmailTokensEvent(e, rot) ==
  /\ minted < MaxMinted
  /\ db[e].exists /\ db[e].provider = "gmail" /\ db[e].googleAccessToken # 0
  /\ minted' = minted + 1
  /\ db' = [db EXCEPT ![e] = Refreshed(@, "gmail", minted + 1, rot)]
  /\ last' = [op |-> "tokens", email |-> e, provider |-> "gmail", ok |-> TRUE,
              rot |-> rot, tok |-> minted + 1, before |-> db]
  /\ UNCHANGED nonAuthVars

InitAuth ==
  /\ InitUser
  /\ user.provider = "gmail" /\ user.googleAccessToken = 1
  /\ user.refreshToken = 1
  /\ issued = 1
  /\ others = 0
  /\ req = IdleReq
  /\ ai = IdleAI
  /\ InitLabelVars
  /\ calc = IdleCalc
  /\ InitAuthVars
  /\ InitClientVars

NextAuth ==
  \/ \E e \in Emails, p \in Providers, o \in {"ok", "err"}, rot \in BOOLEAN :
        OAuthCallback(e, p, o, rot)
  \/ \E e \in Emails, p \in Providers, o \in {"ok", "err"}, rot \in BOOLEAN :
        RefreshByProvider(e, p, o, rot)
  \/ \E e \in Emails, rot \in BOOLEAN : GmailTokensEvent(e, rot)

SpecAuth == InitAuth /\ [][NextAuth]_vars

(***************************************************************************)
(* The body of a Gmail message: GET /:id with extractBodyGmail             *)
(* ("extractBodyGmail") and the earlier GET /:id with processParts         *)
(* ("processParts").  A body is the sequence of the decoded leaf bodies    *)
(* it is concatenated from; parts carry no filename.                       *)
(***************************************************************************)
DecodeVariants == {"extractBodyGmail", "processParts"}

\* Leaf parts: mimeType and decoded body.data ("" is no data).
Leaves ==
  {[mimeType |-> "text/html", data |-> d, parts |-> <<>>] :
      d \in {"", "<h1>", "<h2>"}}
  \cup {[mimeType |-> "text/plain", data |-> d, parts |-> <<>>] :
          d \in {"t1", "t2"}}
  \cup {[mimeType |-> "image/png", data |-> "", parts |-> <<>>]}

\* multipart parts holding one or two leaves.
Multiparts ==
  {[mimeType |-> "multipart/alternative", data |-> "", parts |-> <<a>>] :
      a \in Leaves}
  \cup {[mimeType |-> "multipart/alternative", data |-> "",
         parts |-> <<a, b>>] : a, b \in Leaves}

PartLists == UNION {[1..n -> Leaves \cup Multiparts] : n \in 0..MaxParts}

\* payloads: multipart with parts, or with body data of their own.
Payloads ==
  {[mimeType |-> "multipart/mixed", data |-> "", parts |-> ps] :
      ps \in PartLists}
  \cup {[mimeType |-> m, data |-> d, parts |-> ps] :
          m \in {"text/html", "text/plain", "image/png"},
          d \in {"<h1>", "t1"},
          ps \in {<<>>, <<[mimeType |-> "text/html", data |-> "<h2>",
                           parts |-> <<>>]>>}}

\* One decoded body.data as a body; "" adds nothing.
Text(d) == IF d = "" THEN <<>> ELSE <<d>>

\* extractedBody.includes("<")
IncludesAngle(body) == \E i \in 1..Len(body) : body[i] \in {"<h1>", "<h2>"}

RECURSIVE extractBodyGmail(_)
extractBodyGmail(parts) ==
  IF parts = <<>> THEN <<>>
  ELSE LET part == Head(parts)
           own == IF part.mimeType = "text/html" /\ part.data # ""
                    THEN Text(part.data)
                  ELSE IF part.mimeType = "text/plain" /\ part.data # ""
                    THEN Text(part.data)
                  ELSE extractBodyGmail(part.parts)
       IN own \o extractBodyGmail(Tail(parts))

\* processParts: what it appends to the body of mimeType mime.
RECURSIVE processParts(_, _)
processParts(parts, mime) ==
  IF parts = <<>> THEN <<>>
  ELSE LET part == Head(parts)
           own == IF part.mimeType = "text/html" /\ part.data # ""
                    THEN (IF mime = "text/html" THEN Text(part.data) ELSE <<>>)
                  ELSE IF part.mimeType = "text/plain" /\ part.data # ""
                    THEN (IF mime = "text/plain" THEN Text(part.data)
                          ELSE <<>>)
                  ELSE processParts(part.parts, mime)
       IN own \o processParts(Tail(parts), mime)

\* The body of the response of GET /:id for a Gmail payload.
BodyOf(variant, payload) ==
  IF payload.data # ""
    THEN [html |-> IF payload.mimeType = "text/html"
                     THEN Text(payload.data) ELSE <<>>,
          plain |-> IF payload.mimeType = "text/plain"
                      THEN Text(payload.data) ELSE <<>>]
  ELSE IF variant = "extractBodyGmail"
    THEN LET extractedBody == extractBodyGmail(payload.parts) IN
         IF IncludesAngle(extractedBody)
           THEN [html |-> extractedBody, plain |-> <<>>]
           ELSE [html |-> <<>>, plain |-> extractedBody]
  ELSE [html |-> processParts(payload.parts, "text/html"),
        plain |-> processParts(payload.parts, "text/plain")]

GetGmailBody(variant, payload) ==
  /\ calc.fn = "none"
  /\ calc' = [fn |-> "body",
              arg |-> [variant |-> variant, payload |-> payload],
              out |-> BodyOf(variant, payload)]
  /\ UNCHANGED nonPureVars

NextDecode ==
  \E variant \in DecodeVariants, payload \in Payloads :
    GetGmailBody(variant, payload)

SpecDecode == InitSubject /\ [][NextDecode]_vars

(***************************************************************************)
(* The attachments of a Gmail message: GET /:id as it is ("filter") and    *)
(* the earlier GET /:id with processParts ("processParts").                *)
(***************************************************************************)
AttachmentVariants == {"filter", "processParts"}

\* Leaf parts with a filename, and one without.
FileLeaves ==
  {[filename |-> "a.pdf", mimeType |-> "application/pdf",
    attachmentId |-> "att1", size |-> 1, parts |-> <<>>],
   [filename |-> "b.png", mimeType |-> "image/png",
    attachmentId |-> "att2", size |-> 2, parts |-> <<>>],
   [filename |-> "", mimeType |-> "text/plain",
    attachmentId |-> "", size |-> 3, parts |-> <<>>]}

Container(ps) ==
  [filename |-> "", mimeType |-> "multipart/mixed", attachmentId |-> "",
   size |-> 0, parts |-> ps]

\* multipart parts holding leaves, and multipart parts holding one of
\* those.
FileContainers ==
  {Container(<<a>>) : a \in FileLeaves}
  \cup {Container(<<a, b>>) : a, b \in FileLeaves}

NestedContainers == {Container(<<c>>) : c \in FileContainers}

FilePartLists ==
  UNION {[1..n -> FileLeaves \cup FileContainers \cup NestedContainers] :
           n \in 0..MaxParts}

\* {id: part.body.attachmentId, filename, mimeType, size: part.body.size}
Descriptor(part) ==
  [id |-> part.attachmentId, filename |-> part.filename,
   mimeType |-> part.mimeType, size |-> part.size]

\* payload.parts?.filter((part) => part.filename)?.map(...)
RECURSIVE FilterAttachments(_)
FilterAttachments(parts) ==
  IF parts = <<>> THEN <<>>
  ELSE (IF Head(parts).filename # "" THEN <<Descriptor(Head(parts))>>
        ELSE <<>>) \o FilterAttachments(Tail(parts))

\* processParts: the attachments it pushes.
RECURSIVE processPartsAttachments(_)
processPartsAttachments(parts) ==
  IF parts = <<>> THEN <<>>
  ELSE (IF Head(parts).filename # "" THEN <<Descriptor(Head(parts))>>
        ELSE processPartsAttachments(Head(parts).parts))
       \o processPartsAttachments(Tail(parts))

AttachmentsOf(variant, parts) ==
  IF variant = "filter" THEN FilterAttachments(parts)
  ELSE processPartsAttachments(parts)

GetGmailAttachments(variant, parts) ==
  /\ calc.fn = "none"
  /\ calc' = [fn |-> "attachments",
              arg |-> [variant |-> variant, parts |-> parts],
              out |-> AttachmentsOf(variant, parts)]
  /\ UNCHANGED nonPureVars

NextAttachments ==
  \E variant \in AttachmentVariants, parts \in FilePartLists :
    GetGmailAttachments(variant, parts)

SpecAttachments == InitSubject /\ [][NextAttachments]_vars

(***************************************************************************)
(* The body and snippet of the response of GET /:id, for a Gmail message   *)
(* and for an Outlook message.  Strings are sequences of pieces, "" the    *)
(* empty one.                                                              *)
(***************************************************************************)
\* email.data.snippet and email.bodyPreview
Snippets == {<<>>, <<"hello">>}

\* Gmail messages: payload and snippet.
GmailMessages ==
  {[provider |-> "gmail", payload |-> p, snippet |-> sn] :
      p \in Payloads, sn \in Snippets}

\* Outlook messages: body.contentType, body.content and bodyPreview.
OutlookMessages ==
  {[provider |-> "outlook", contentType |-> ct, content |-> c,
    snippet |-> sn] :
      ct \in {"html", "text"}, c \in {<<>>, <<"<h1>">>, <<"t1">>},
      sn \in Snippets}

\* body and snippet of res.json of GET /:id.
Normalized(msg) ==
  IF msg.provider = "gmail"
    THEN [body |-> BodyOf("extractBodyGmail", msg.payload),
          snippet |-> msg.snippet]
    ELSE [body |-> [html |-> IF msg.contentType = "html" THEN msg.content
                             ELSE <<>>,
                    plain |-> IF msg.contentType = "text" THEN msg.content
                              ELSE <<>>],
          snippet |-> msg.snippet]

GetEmail(msg) ==
  /\ calc.fn = "none"
  /\ calc' = [fn |-> "get", arg |-> msg, out |-> Normalized(msg)]
  /\ UNCHANGED nonPureVars

NextGetEmail == \E msg \in GmailMessages \cup OutlookMessages : GetEmail(msg)

SpecGetEmail == InitSubject /\ [][NextGetEmail]_vars

(***************************************************************************)
(* The base64 lines of an attachment in the MIME message send, reply and   *)
(* forward build for Gmail.  Characters are numbered: 0..61 the letters    *)
(* and digits, 62 "+", 63 "/", 64 "-", 65 "_".                             *)
(***************************************************************************)
LineWidth == 76

\* Where an attachment comes from: an uploaded file, or the message being
\* forwarded.
AttachmentSources == {"file", "original"}

\* fileContent.toString("base64"): the base64 alphabet, in fours.
FileBase64(n, seed) == [i \in 1..n |-> (i * seed) % 64]

\* attachment.data of the Gmail API: the base64url alphabet.
OriginalData(n, seed) ==
  [i \in 1..n |-> LET v == (i * seed) % 64 IN
                  IF v = 62 THEN 64 ELSE IF v = 63 THEN 65 ELSE v]

\* data.replace(/-/g, "+").replace(/_/g, "/")
ToBase64(data) ==
  [i \in 1..Len(data) |->
     IF data[i] = 64 THEN 62 ELSE IF data[i] = 65 THEN 63 ELSE data[i]]

\* A line that runs one character into the next.
LineAt_Overlong(base64Content, i) ==
  SubSeq(base64Content, i + 1,
         IF i + LineWidth + 1 < Len(base64Content) THEN i + LineWidth + 1
         ELSE Len(base64Content))

\* base64Content.substring(i, i + 76)
LineAt(base64Content, i) ==
  SubSeq(base64Content, i + 1,
         IF i + LineWidth < Len(base64Content) THEN i + LineWidth
         ELSE Len(base64Content))

\* for (let i = 0; i < base64Content.length; i += 76) push(substring)
RECURSIVE LinesFrom(_, _)
LinesFrom(base64Content, i) ==
  IF i < Len(base64Content)
    THEN <<LineAt(base64Content, i)>> \o LinesFrom(base64Content, i + LineWidth)
    ELSE <<>>

\* The base64 text of an attachment as the message carries it.
Base64Of(source, data) == IF source = "original" THEN ToBase64(data) ELSE data

AttachLines(source, data) ==
  /\ calc.fn = "none"
  /\ calc' = [fn |-> "attach",
              arg |-> [source |-> source, data |-> data],
              out |-> LinesFrom(Base64Of(source, data), 0)]
  /\ UNCHANGED nonPureVars

NextAttach ==
  \/ \E n \in 0..MaxBase64Len, seed \in {1, 7} :
        n % 4 = 0 /\ AttachLines("file", FileBase64(n, seed))
  \/ \E n \in 0..MaxBase64Len, seed \in {1, 7} :
        AttachLines("original", OriginalData(n, seed))

SpecAttach == InitSubject /\ [][NextAttach]_vars

(***************************************************************************)
(* The prompt of handleEmailQuery and the model calls made with it, for    *)
(* two requests side by side.                                              *)
(***************************************************************************)
\* EmailData as the client sends it, with the fields the route's
\* interface names and others it may carry.
EmailDatas ==
  [subject : {"s1"}, from : {"f1"}, to : {"t1"}, date : {"d1"},
   preview : {"p1", "p2"}, body : {"b1", "b2"}, labels : {{}, {"STARRED"}},
   id : {"m1", "m2"}]

\* A projection that takes the full body for the content.
Projected_FullBody(email) ==
  [subject |-> email.subject, from |-> email.from, to |-> email.to,
   date |-> email.date, content |-> email.body]

\* One element of processEmailContext.
Projected(email) ==
  [subject |-> email.subject, from |-> email.from, to |-> email.to,
   date |-> email.date, content |-> email.preview]

processEmailContext(emails) ==
  [i \in 1..Len(emails) |-> Projected(emails[i])]

\* createPrompt: the system message, the projected emails, the
\* conversation history and the query.
createPrompt(query, context) ==
  [system |-> "systemMessage",
   emails |-> processEmailContext(context.emails),
   history |-> context.previousMessages,
   query |-> query]

\* The calls handleEmailQuery makes to Groq from candidate i on, the
\* candidates answering as outs says.
RECURSIVE QueryCalls(_, _, _, _)
QueryCalls(modelId, prompt, outs, i) ==
  IF i > Len(fallbackChain) THEN <<>>
  ELSE LET id == IF i = 0 THEN modelId ELSE fallbackChain[i]
           t == tryModel(id, outs[i + 1])
       IN (IF t.sent THEN <<[model |-> t.model, prompt |-> prompt]>>
           ELSE <<>>)
          \o (IF t.res = "ok" THEN <<>>
              ELSE QueryCalls(modelId, prompt, outs, i + 1))

\* What one request gives rise to.
Prompted(modelId, query, email, outs) ==
  LET prompt == createPrompt(query, [emails |-> <<email>>,
                                     previousMessages |-> <<>>]) IN
  [prompt |-> prompt, calls |-> QueryCalls(modelId, prompt, outs, 0)]

HandleTwo(modelId, first, second, outs) ==
  /\ calc.fn = "none"
  /\ calc' = [fn |-> "prompts",
              arg |-> [modelId |-> modelId, first |-> first,
                       second |-> second, outs |-> outs],
              out |-> [first |-> Prompted(modelId, "summarize", first, outs),
                       second |-> Prompted(modelId, "summarize", second, outs)]]
  /\ UNCHANGED nonPureVars

NextPrompt ==
  \E modelId \in {"llama-3-70b", "gpt-unknown"}, first \in EmailDatas,
     second \in EmailDatas,
     outs \in [1..(1 + Len(fallbackChain)) -> {"ok", "fail"}] :
       HandleTwo(modelId, first, second, outs)

SpecPrompt == InitSubject /\ [][NextPrompt]_vars

(***************************************************************************)
(* The front end's axios instance: the response interceptor that refreshes *)
(* the session on 401.                                                     *)
(***************************************************************************)
RefreshUrl == "/api/auth/refresh"

\* What the front end's own requests go to.
AppUrl == "/api/emails"

\* JavaScript's truthiness of what a subscriber is called with: the token
\* string, the "success" default or the refresh's error object.
Truthy(value) == value \notin {"", "undefined"}

\* The condition under which the interceptor handles a rejection.
Handles401(status, retry, url) ==
  status = 401 /\ ~retry /\ url # RefreshUrl

\* The callback a queued request subscribes, called with value: it
\* re-sends the original request, or rejects with the original error.
Callback(q, value) ==
  IF Truthy(value)
    THEN [q EXCEPT !.pc = "sent", !.sends = @ + 1, !.notified = @ + 1]
    ELSE [q EXCEPT !.pc = "rejected", !.error = "401", !.notified = @ + 1]

subscribeTokenRefresh(a, r) ==
  [a EXCEPT !.refreshSubscribers = Append(@, r),
            !.reqs[r].pc = "queued", !.reqs[r].subscribed = @ + 1]

onTokenRefreshed(a, token) ==
  [a EXCEPT !.reqs = [r \in Reqs |->
                        IF \E i \in DOMAIN a.refreshSubscribers :
                              a.refreshSubscribers[i] = r
                          THEN Callback(a.reqs[r], token) ELSE a.reqs[r]],
            !.refreshSubscribers = <<>>]

onRefreshError(a, error) ==
  [a EXCEPT !.reqs = [r \in Reqs |->
                        IF \E i \in DOMAIN a.refreshSubscribers :
                              a.refreshSubscribers[i] = r
                          THEN Callback(a.reqs[r], error) ELSE a.reqs[r]],
            !.refreshSubscribers = <<>>,
            !.login = TRUE]

\* A start of the refresh that does not raise the flag.
Started_Unflagged(a, r) ==
  [a EXCEPT !.reqs[r].retry = TRUE, !.reqs[r].pc = "refreshing",
            !.posts = @ + 1]

\* No refresh in progress: mark the request, raise the flag and post.
Started(a, r) ==
  [a EXCEPT !.reqs[r].retry = TRUE, !.reqs[r].pc = "refreshing",
            !.isRefreshing = TRUE, !.posts = @ + 1]

\* What happened last; only a settled refresh leaves a trace.
Quiet(a) == [a EXCEPT !.event = [kind |-> "none", waiting |-> {}]]

AxiosRequest(r) ==
  /\ ax.reqs[r].pc = "new"
  /\ ax' = Quiet([ax EXCEPT !.reqs[r].pc = "sent", !.reqs[r].sends = 1])
  /\ UNCHANGED nonFrontVars

\* response => response
AxiosFulfilled(r) ==
  /\ ax.reqs[r].pc = "sent"
  /\ ax' = Quiet([ax EXCEPT !.reqs[r].pc = "resolved"])
  /\ UNCHANGED nonFrontVars

\* The error handler of the interceptor, for a request of the front end.
AxiosRejected(r, status) ==
  /\ ax.reqs[r].pc = "sent"
  /\ ax' = Quiet(IF Handles401(status, ax.reqs[r].retry, AppUrl)
                   THEN IF ax.isRefreshing
                          THEN subscribeTokenRefresh(ax, r)
                          ELSE Started(ax, r)
                   ELSE [ax EXCEPT !.reqs[r].pc = "rejected",
                                   !.reqs[r].error =
                                      IF status = 401 THEN "401" ELSE "other"])
  /\ UNCHANGED nonFrontVars

\* The refresh that request r started comes back: with 200, or with an
\* error that the interceptor passes through because of its url.
RefreshSettled(r, status) ==
  /\ ax.reqs[r].pc = "refreshing"
  /\ ax.posts > 0
  /\ status # 200 => ~Handles401(status, FALSE, RefreshUrl)
  /\ LET waiting == {ax.refreshSubscribers[i] :
                        i \in DOMAIN ax.refreshSubscribers}
         lowered == [ax EXCEPT !.isRefreshing = FALSE, !.posts = @ - 1]
     IN ax' = IF status = 200
                THEN [onTokenRefreshed(lowered, "success") EXCEPT
                        !.reqs[r].pc = "sent", !.reqs[r].sends = @ + 1,
                        !.event = [kind |-> "refreshed", waiting |-> waiting]]
                ELSE [onRefreshError(lowered, "refreshError") EXCEPT
                        !.reqs[r].pc = "rejected",
                        !.reqs[r].error = "refreshError",
                        !.event = [kind |-> "refreshFailed",
                                   waiting |-> waiting]]
  /\ UNCHANGED nonFrontVars

NextAxios ==
  \/ \E r \in Reqs : AxiosRequest(r)
  \/ \E r \in Reqs : AxiosFulfilled(r)
  \/ \E r \in Reqs, status \in {401, 500} : AxiosRejected(r, status)
  \/ \E r \in Reqs, status \in {200, 401, 500} : RefreshSettled(r, status)

SpecAxios == InitSubject /\ [][NextAxios]_vars

(***************************************************************************)
(* POST /batchModify for an Outlook user.                                  *)
(***************************************************************************)
\* What req.body.ids can be: absent, something that is no array, or an
\* array of message ids.
BodyIds ==
  {[kind |-> "missing", items |-> <<>>], [kind |-> "string", items |-> <<>>]}
  \cup {[kind |-> "array", items |-> items] :
          items \in UNION {[1..n -> MsgIds] : n \in 0..MaxIds}}

\* !ids || !Array.isArray(ids) || ids.length === 0, negated
ValidIds(ids) == ids.kind = "array" /\ Len(ids.items) > 0

\* A catch that undoes the ids already written.
BatchFail_RolledBack(b) ==
  [b EXCEPT !.pc = "done", !.status = CatchStatus, !.failedAt = b.i,
            !.store = b.before]

\* The route's catch: the loop stops where it is.
BatchFail(b) ==
  [b EXCEPT !.pc = "done", !.status = CatchStatus, !.failedAt = b.i]

\* The request arrives; cats is what the mailbox holds at that time.
BatchReceive(ids, add, remove, cats) ==
  /\ batch.pc = "idle"
  /\ batch' = IF ~ValidIds(ids)
                THEN [batch EXCEPT !.pc = "done", !.status = 400,
                                   !.store = cats, !.before = cats]
                ELSE [batch EXCEPT !.pc = "get", !.ids = ids.items,
                                   !.add = add, !.remove = remove, !.i = 1,
                                   !.store = cats, !.before = cats]
  /\ UNCHANGED nonBatchVars

\* GET /me/messages/{id} answers o; on the first 401 the token is
\* refreshed (answer ro) and the read is made once more.
BatchGet(o, ro) ==
  /\ batch.pc = "get"
  /\ LET called == [batch EXCEPT !.calls = @ + 1] IN
     batch' =
       IF o = "ok"
         THEN [called EXCEPT
                 !.pc = "patch", !.retried = FALSE,
                 !.categories = Categories(batch.store[batch.ids[batch.i]],
                                           batch.add, batch.remove)]
       ELSE IF o = "401" /\ ~batch.retried /\ ro = "ok"
         THEN [called EXCEPT !.retried = TRUE]
       ELSE BatchFail(called)
  /\ UNCHANGED nonBatchVars

\* PATCH /me/messages/{id} answers o, with the same single retry; after
\* the write the loop moves to the next id or the route answers.
BatchPatch(o, ro) ==
  /\ batch.pc = "patch"
  /\ LET called == [batch EXCEPT !.calls = @ + 1]
         id == batch.ids[batch.i]
     IN
     batch' =
       IF o = "ok"
         THEN [called EXCEPT
                 !.store[id] = Patched(@, batch.categories),
                 !.retried = FALSE,
                 !.i = @ + 1,
                 !.pc = IF batch.i = Len(batch.ids) THEN "done" ELSE "get",
                 !.status = IF batch.i = Len(batch.ids) THEN 200 ELSE 0]
       ELSE IF o = "401" /\ ~batch.retried /\ ro = "ok"
         THEN [called EXCEPT !.retried = TRUE]
       ELSE BatchFail(called)
  /\ UNCHANGED nonBatchVars

NextBatch ==
  \/ \E ids \in BodyIds, add \in SUBSET {"STARRED"},
        remove \in SUBSET LabelIds,
        cats \in [MsgIds -> SUBSET LabelIds] :
          BatchReceive(ids, add, remove, cats)
  \/ \E o \in {"ok", "401", "err"}, ro \in {"ok", "fail"} : BatchGet(o, ro)
  \/ \E o \in {"ok", "401", "err"}, ro \in {"ok", "fail"} : BatchPatch(o, ro)

SpecBatch == InitSubject /\ [][NextBatch]_vars

InitAI ==
  /\ InitUser
  /\ issued = 1
  /\ others = 0
  /\ req = IdleReq
  /\ ai = IdleAI
  /\ InitRest

NextAI ==
  \/ \E h \in Handlers, c \in Contents, id \in RequestedIds,
        n \in 0..MaxEmails, key \in BOOLEAN : ReceiveAI(h, c, id, n, key)
  \/ AiTsStart
  \/ \E o \in ModelOutcomes : AiTsPrimary(o)
  \/ \E o \in ModelOutcomes : AiTsGroq(o)
  \/ QueryStart
  \/ \E o \in ModelOutcomes : QueryTry(o)

SpecAI == InitAI /\ [][NextAI]_vars

\* Every awaited call returns or throws, so the handler's next step is
\* taken.
SpecAILive == SpecAI /\ WF_vars(NextAI)

InitMail ==
  /\ InitUser
  /\ issued = 1
  /\ others = 0
  /\ req = IdleReq
  /\ ai = IdleAI
  /\ InitRest

NextMail ==
  \/ \E op \in Ops, n \in 0..MaxFiles, wf \in BOOLEAN : Receive(op, n, wf)
  \/ GetEmailClient
  \/ \E o \in Outcomes : ProviderCall(o)
  \/ \E o \in {"ok", "err"}, rot \in BOOLEAN : RefreshTokenByProvider(o, rot)
  \/ \E rot \in BOOLEAN : OtherRequestRefresh(rot)
  \/ RereadUser
  \/ \E o \in Outcomes : RetryCall(o)

SpecMail == InitMail /\ [][NextMail]_vars

(***************************************************************************)
(* The auth-retry and attachment-cleanup claims, checked under SpecMail.   *)
(***************************************************************************)
Calls(q) == 1..Len(q.attempts)

\* The answers of the attempts of call c, in order.
Results(q, c) == [i \in 1..Len(q.attempts[c]) |-> q.attempts[c][i].res]

\* The token the latest refresh before call c returned (0: none so far).
LastFresh(q, c) ==
  LET S == {b \in 1..(c - 1) : q.fresh[b] # 0}
  IN IF S = {} THEN 0 ELSE q.fresh[CHOOSE b \in S : \A x \in S : x <= b]

C2_SecondFailureIsAuthenticationExpired ==
  \A c \in Calls(req) :
    (Len(req.attempts[c]) >= 2 /\ Results(req, c)[1] = "401"
       /\ Results(req, c)[2] = "401") =>
      /\ Len(req.attempts[c]) = 2
      /\ req.refreshes[c] = 1
      /\ req.pc = "done"
      /\ req.status = 401

\* C3: a call is retried only after a refresh has returned a token, the
\* retry carries that token and not the rejected one, every later call of
\* the request starts with the latest token a refresh returned, and a call
\* whose refresh returned nothing is not retried.
C3_RefreshThenRetryOrdered ==
  \A c \in Calls(req) :
    /\ Len(req.attempts[c]) <= 2
    /\ req.fresh[c] = 0 => Len(req.attempts[c]) <= 1
    /\ Len(req.attempts[c]) = 2 =>
         /\ req.attempts[c][1].res = "401"
         /\ req.refreshes[c] = 1
         /\ req.attempts[c][2].tok = req.fresh[c]
         /\ req.attempts[c][2].tok # req.attempts[c][1].tok
    /\ (Len(req.attempts[c]) >= 1 /\ LastFresh(req, c) # 0) =>
         req.attempts[c][1].tok = LastFresh(req, c)

\* A request whose first call was retried with the refreshed token and
\* whose second call was then made with that token.
C3_Witness ==
  /\ req.pc = "done"
  /\ req.status = 200
  /\ Len(req.attempts) >= 2
  /\ Len(req.attempts[1]) = 2
  /\ req.attempts[1][2].tok = req.fresh[1]
  /\ req.attempts[2][1].tok = req.fresh[1]

\* A request whose refresh failed: the call was attempted once.
C3_WitnessRefreshFailed ==
  /\ req.pc = "done"
  /\ req.failedAt = "refresh"
  /\ Len(req.attempts[req.call]) = 1

\* C7: when send, reply or forward has responded, after a successful send
\* and also after a throw while building the message, refreshing the token
\* or calling the provider, no uploaded file is left on disk.
C7_FilesDeletedOnEveryExit ==
  (req.pc = "done" /\ req.op \in SendOps /\ req.failedAt # "client")
    => req.files = 0

(***************************************************************************)
(* The AI dispatcher claims, checked under SpecAI.                         *)
(***************************************************************************)
\* The order the specification declares: the requested model, then the
\* chain.
DeclaredOrder(a) ==
  <<a.modelId, "llama3-70b-8192", "llama-3.1-8b-instant", "gemma2-9b-it">>

\* Whether the handler took the attempt's answer as a response.
Accepted(a, t) ==
  t.sent /\ (t.res = "ok" \/ (a.handler = "ai.ts" /\ t.res = "empty"))

\* Whether the request's first attempt was the requested model's and gave
\* the response.
PrimarySucceeded(a) ==
  /\ Len(a.tried) >= 1
  /\ a.tried[1].id = a.modelId
  /\ a.tried[1].api = (IF a.handler = "ai.ts"
                         THEN getModelById(a.modelId).apiType ELSE "groq")
  /\ Accepted(a, a.tried[1])

\* C4: handleEmailQuery tries the requested model first and then the chain
\* llama3-70b-8192, llama-3.1-8b-instant, gemma2-9b-it in that order, each
\* only after every earlier attempt has failed, none after the first
\* success, and modelUsed is the id of the model that succeeded.
C4_FallbackChainOrder ==
  ai.handler = "handleEmailQuery" =>
    /\ Len(ai.tried) <= 4
    /\ \A i \in 1..Len(ai.tried) : ai.tried[i].id = DeclaredOrder(ai)[i]
    /\ \A i \in 1..(Len(ai.tried) - 1) : ai.tried[i].res # "ok"
    /\ (ai.pc = "done" /\ ai.status = 200) =>
         IF ai.tried[Len(ai.tried)].res = "ok"
           THEN ai.model = ai.tried[Len(ai.tried)].id /\ ai.text = "answer"
           ELSE Len(ai.tried) = 4 /\ ai.model = "none"
    /\ ai.pc = "try" => Len(ai.tried) = ai.next

\* A request served by the second model of the chain after the requested
\* model and the first model of the chain failed.
C4_Witness ==
  /\ ai.handler = "handleEmailQuery"
  /\ ai.pc = "done"
  /\ ai.status = 200
  /\ Len(ai.tried) = 3
  /\ ai.tried[1].sent /\ ai.tried[1].res = "fail"
  /\ ai.tried[2].res # "ok"
  /\ ai.tried[3].res = "ok"
  /\ ai.model = "llama-3.1-8b-instant"

\* C5: a response says fallbackUsed exactly when the requested model's
\* attempt did not succeed, and a request whose requested model is of
\* apiType groq and whose Groq call fails still gets a response, with
\* fallbackUsed true.
C5_FallbackUsedIffPrimaryFailed ==
  ai.pc = "done" =>
    /\ ai.status = 200 => (ai.fallbackUsed <=> ~PrimarySucceeded(ai))
    /\ ( /\ getModelById(ai.modelId).apiType = "groq"
         /\ Len(ai.tried) >= 1
         /\ ai.tried[1].sent
         /\ ai.tried[1].res = "fail" )
       => (ai.status = 200 /\ ai.fallbackUsed)

\* C6: when the requested model did not succeed and every fallback model
\* tried failed too, the answer is a 200 carrying the apology.
C6_ExhaustionAnswers200 ==
  ( /\ ai.pc = "done"
    /\ ai.fallbackUsed
    /\ Len(ai.tried) >= 1
    /\ \A i \in 1..Len(ai.tried) : ai.tried[i].res = "fail" )
  => (ai.status = 200 /\ ai.text = "apology")

\* C8: a request with an empty or blank query, or without emails in its
\* context, is answered 400 and no model call is made.
C8_InvalidRequestRejected ==
  (ai.pc = "done" /\ (Trim(ai.content) = "" \/ ai.emails = 0))
    => (ai.status = 400 /\ ai.tried = <<>>)

\* C9: a request naming a model id outside the catalog is answered 400
\* with no model call made, and no fallback model serves it.
C9_UnknownModelRejected ==
  (ai.pc = "done" /\ ai.modelId \notin CatalogIds)
    => /\ ai.status = 400
       /\ ai.model = "none"
       /\ \A i \in 1..Len(ai.tried) : ~ai.tried[i].sent

Repeated(a, b) ==
  /\ a # b
  /\ mods[a].pc = "done" /\ mods[a].status = 200
  /\ mods[b].pc = "done" /\ mods[b].status = 200
  /\ mods[b].add = mods[a].add /\ mods[b].remove = mods[a].remove
  /\ mods[b].began = mods[a].wrote
  /\ mods[b].wrote = mods[a].wrote + 1

\* C11: a modify applied a second time with the same addLabels and
\* removeLabels leaves the label set the first application left, and
\* modify(add = {STARRED}, remove = {}) on a starred message succeeds with
\* the label set unchanged.
C11_ModifyIdempotent ==
  /\ \A a, b \in ModIds :
       Repeated(a, b) =>
         (mods[b].labelIds = mods[a].labelIds /\ mbox.labels = mods[a].labelIds)
  /\ \A m \in ModIds :
       ( /\ mods[m].pc = "done" /\ mods[m].status = 200
         /\ mods[m].add = {"STARRED"} /\ mods[m].remove = {}
         /\ "STARRED" \in mods[m].before
         /\ mods[m].wrote = mods[m].began + 1 )
       => mods[m].labelIds = mods[m].before

\* An Outlook request starring a starred message twice over, its second
\* run returning the labels the first left.
C11_Witness ==
  /\ user.provider = "outlook"
  /\ Repeated("m1", "m2")
  /\ mods["m1"].add = {"STARRED"} /\ mods["m1"].remove = {}
  /\ "STARRED" \in mods["m1"].before
  /\ mods["m2"].labelIds = mods["m1"].before

\* An application that changes the labels, repeated, with an add and a
\* remove that overlap.
C11_WitnessOverlap ==
  /\ Repeated("m1", "m2")
  /\ mods["m1"].add = {"STARRED", "INBOX"} /\ mods["m1"].remove = {"INBOX"}
  /\ mods["m1"].before = {}

\* C12: concurrent Outlook modify requests are not serialized: each writes
\* (the labels it read minus removeLabels) union addLabels, and the
\* message carries what the last write to reach the provider wrote, even
\* when that drops a label the other request added.
C12_LastWriteWins ==
  user.provider = "outlook" =>
    \A m \in ModIds :
      (mods[m].pc = "done" /\ mods[m].status = 200) =>
        /\ mods[m].labelIds = (mods[m].read \ mods[m].remove) \cup mods[m].add
        /\ mods[m].wrote = mbox.writes => mbox.labels = mods[m].labelIds

\* Two requests read the same labels; the first adds STARRED, the second's
\* later write drops it.
C12_Witness ==
  /\ user.provider = "outlook"
  /\ \A m \in ModIds : mods[m].pc = "done" /\ mods[m].status = 200
  /\ mods["m1"].add = {"STARRED"} /\ mods["m1"].wrote = 1
  /\ mods["m2"].read = mods["m1"].read /\ mods["m2"].wrote = 2
  /\ "STARRED" \notin mods["m2"].read
  /\ "STARRED" \notin mods["m2"].remove
  /\ "STARRED" \notin mbox.labels

(***************************************************************************)
(* The subject claim, checked under SpecSubject.                           *)
(***************************************************************************)
\* C13: the subject of a reply starts with exactly one "Re: " whatever the
\* original's stack of "Re: " prefixes, and the subject of a forward starts
\* with exactly one "Fwd: ".
C13_SinglePrefix ==
  /\ calc.fn = "reply" =>
       (calc.out[1] = "Re: " /\ ~MatchesRe(Tail(calc.out)))
  /\ calc.fn = "forward" =>
       (calc.out[1] = "Fwd: " /\ ~MatchesFwd(Tail(calc.out)))

(***************************************************************************)
(* The listing claims, checked under SpecGetEmails.                        *)
(***************************************************************************)
\* The label the specification's table gives a filter name.
DeclaredLabel(filter) ==
  CASE filter = "unread" -> <<"UNREAD">>
    [] filter = "starred" -> <<"STARRED">>
    [] filter = "sent" -> <<"SENT">>
    [] filter = "trash" -> <<"TRASH">>
    [] filter = "important" -> <<"IMPORTANT">>
    [] filter = "draft" -> <<"DRAFT">>
    [] filter = "spam" -> <<"SPAM">>
    [] filter = "archived" -> <<>>
    [] OTHER -> <<"INBOX">>

\* C14: a list with a filter restricts the provider query to the label
\* the table maps the filter name to, and to INBOX for a name the table
\* lacks.
C14_FilterRestrictsQuery ==
  (calc.fn = "getEmails" /\ calc.arg.params.filter # "") =>
    calc.out.request.labels = DeclaredLabel(calc.arg.params.filter)

\* C15: totalPages is ceil(resultSizeEstimate / pageSize) for the pageSize
\* asked for, no more than pageSize items are asked of the provider, and
\* currentPage is the page asked for, 1 when left out; 45 unread messages
\* at pageSize 20 give 20 items on page 1 of 3.
C15_TotalPagesFromPageSize ==
  calc.fn = "getEmails" =>
    LET p == calc.arg.params
        r == calc.out.response IN
    /\ r.currentPage = (IF p.page = 0 THEN 1 ELSE p.page)
    /\ p.pageSize # 0 =>
         /\ r.totalPages * p.pageSize >= calc.arg.estimate
         /\ (r.totalPages - 1) * p.pageSize < calc.arg.estimate
         /\ calc.out.request.maxResults <= p.pageSize
    /\ (p.filter = "unread" /\ p.pageSize = 20 /\ calc.arg.estimate = 45
        /\ p.page \in {0, 1})
       => (r.items = 20 /\ r.totalPages = 3 /\ r.currentPage = 1)

(***************************************************************************)
(* The credential and provider-support claims.                             *)
(***************************************************************************)
\* Whether the user record holds no access token for its provider.
NoCredential ==
  \/ user.provider = "gmail" /\ user.googleAccessToken = 0
  \/ user.provider = "outlook" /\ user.microsoftAccessToken = 0
  \/ user.provider = "yahoo" /\ user.yahooAccessToken = 0

\* C16 (SpecMail): a mail operation for a user without a stored access
\* token ends as CredentialNotFound, status 404, which is not the status
\* of a rejected token, and makes no provider call.
C16_CredentialNotFound ==
  (req.pc = "done" /\ req.failedAt = "client" /\ NoCredential) =>
    (req.status = 404 /\ req.attempts = <<>>)

\* C17 (SpecLabels): label management asked for a Yahoo user ends as
\* UnsupportedOperation, status 400, and never as a success.
C17_YahooUnsupportedOperation ==
  \A m \in ModIds :
    (mods[m].pc = "done" /\ user.provider = "yahoo"
     /\ user.yahooAccessToken # 0) => mods[m].status = 400

(***************************************************************************)
(* The user collection claims, checked under SpecAuth.                     *)
(***************************************************************************)
\* C18: a user record keeps the provider it was created with through
\* every OAuth callback, token refresh and token event of a mail
\* operation.
C18_ProviderNeverChanges ==
  [][\A e \in Emails :
       db[e].exists => (db'[e].exists /\ db'[e].provider = db[e].provider)]_vars

\* The callback of another provider arrived for the email of an existing
\* record, and the record still has its provider.
C18_Witness ==
  /\ last.op = "callback"
  /\ last.tok # 0
  /\ last.before[last.email].exists
  /\ last.before[last.email].provider # last.provider
  /\ db[last.email].provider = last.before[last.email].provider

\* The access token a record holds for provider p.
AccessToken(u, p) ==
  CASE p = "gmail" -> u.googleAccessToken
    [] p = "outlook" -> u.microsoftAccessToken
    [] p = "yahoo" -> u.yahooAccessToken

\* C19: a successful refreshTokenByProvider(userId, provider) stores the
\* newly issued access token of that provider, replaces refreshToken only
\* when the response carries one, and leaves the other providers' access
\* tokens and every other record as they were; a failed one changes
\* nothing.
C19_RefreshFrame ==
  last.op = "refresh" =>
    LET e == last.email
        b == last.before[last.email] IN
    IF last.ok
      THEN /\ AccessToken(db[e], last.provider) = last.tok
           /\ last.tok # AccessToken(b, last.provider)
           /\ db[e].refreshToken =
                (IF last.rot THEN last.tok ELSE b.refreshToken)
           /\ \A q \in Providers \ {last.provider} :
                AccessToken(db[e], q) = AccessToken(b, q)
           /\ db[e].provider = b.provider /\ db[e].exists
           /\ \A f \in Emails \ {e} : db[f] = last.before[f]
      ELSE db = last.before

\* A refresh whose response had no refresh token, with another user on
\* record.
C19_Witness ==
  /\ last.op = "refresh"
  /\ last.ok
  /\ ~last.rot
  /\ db[last.email].refreshToken # 0
  /\ db[last.email].refreshToken # last.tok
  /\ \E f \in Emails \ {last.email} : db[f].exists /\ db[f].refreshToken # 0

\* A refresh whose response rotated the refresh token.
C19_WitnessRotated ==
  /\ last.op = "refresh"
  /\ last.ok
  /\ last.rot
  /\ db[last.email].refreshToken = last.tok
  /\ last.before[last.email].refreshToken # last.tok

\* A refresh that failed for want of a refresh token.
C19_WitnessFailed ==
  /\ last.op = "refresh"
  /\ ~last.ok
  /\ last.before[last.email].exists
  /\ last.before[last.email].refreshToken = 0

(***************************************************************************)
(* The Gmail body claim, checked under SpecDecode.                         *)
(***************************************************************************)
\* The leaves of a part list that carry data, depth-first.
RECURSIVE LeavesOf(_)
LeavesOf(parts) ==
  IF parts = <<>> THEN <<>>
  ELSE (IF Head(parts).parts = <<>>
          THEN (IF Head(parts).data # "" THEN <<Head(parts)>> ELSE <<>>)
          ELSE LeavesOf(Head(parts).parts))
       \o LeavesOf(Tail(parts))

\* The body of the first leaf of a MIME type, if there is one.
FirstBody(leaves, mime) ==
  LET at == {i \in 1..Len(leaves) : leaves[i].mimeType = mime} IN
  IF at = {} THEN <<>>
  ELSE <<leaves[CHOOSE i \in at : \A j \in at : i <= j].data>>

\* C20: body.html is the first text/html leaf body of the part tree in
\* depth-first order and body.plain the first text/plain one, nothing
\* appended and the two kept apart; a payload with body data of its own
\* has that data as its only body, under its MIME type.
C20_FirstLeafBodies ==
  calc.fn = "body" =>
    LET payload == calc.arg.payload IN
    IF payload.data # ""
      THEN /\ calc.out.html = (IF payload.mimeType = "text/html"
                                 THEN <<payload.data>> ELSE <<>>)
           /\ calc.out.plain = (IF payload.mimeType = "text/plain"
                                  THEN <<payload.data>> ELSE <<>>)
      ELSE /\ calc.out.html = FirstBody(LeavesOf(payload.parts), "text/html")
           /\ calc.out.plain = FirstBody(LeavesOf(payload.parts), "text/plain")

(***************************************************************************)
(* The Gmail attachments claim, checked under SpecAttachments.             *)
(***************************************************************************)
\* The parts of a tree that carry a filename, depth-first.
RECURSIVE FilePartsOf(_)
FilePartsOf(parts) ==
  IF parts = <<>> THEN <<>>
  ELSE (IF Head(parts).filename # "" THEN <<Head(parts)>> ELSE <<>>)
       \o FilePartsOf(Head(parts).parts) \o FilePartsOf(Tail(parts))

\* C21: the attachments of a Gmail message are one descriptor (id,
\* filename, mimeType, size) for each part with a filename at any depth of
\* the part tree, in depth-first order.
C21_AttachmentsAtAnyDepth ==
  calc.fn = "attachments" =>
    LET files == FilePartsOf(calc.arg.parts) IN
    /\ Len(calc.out) = Len(files)
    /\ \A i \in 1..Len(files) :
         /\ calc.out[i].id = files[i].attachmentId
         /\ calc.out[i].filename = files[i].filename
         /\ calc.out[i].mimeType = files[i].mimeType
         /\ calc.out[i].size = files[i].size

(***************************************************************************)
(* The normalized email claim, checked under SpecGetEmail.                 *)
(***************************************************************************)
\* C22: the email GET /:id returns has body.html and body.plain both
\* strings, and at least one of body.html, body.plain and the snippet is
\* not empty.
C22_BodyOrPreviewPresent ==
  calc.fn = "get" =>
    /\ calc.out.body.html \in Seq({"<h1>", "<h2>", "t1", "t2"})
    /\ calc.out.body.plain \in Seq({"<h1>", "<h2>", "t1", "t2"})
    /\ \/ calc.out.body.html # <<>>
       \/ calc.out.body.plain # <<>>
       \/ calc.out.snippet # <<>>

(***************************************************************************)
(* The base64 line claim, checked under SpecAttach.                        *)
(***************************************************************************)
RECURSIVE Joined(_)
Joined(lines) ==
  IF lines = <<>> THEN <<>> ELSE Head(lines) \o Joined(Tail(lines))

\* C23: each base64 line of an attachment in the outgoing message has at
\* most 76 characters, only the last may have fewer, and the lines in
\* order make up the whole base64 text of the attachment.
C23_Base64LinesWrapped ==
  calc.fn = "attach" =>
    /\ \A i \in 1..Len(calc.out) :
         /\ Len(calc.out[i]) <= 76
         /\ Len(calc.out[i]) >= 1
         /\ i < Len(calc.out) => Len(calc.out[i]) = 76
    /\ Joined(calc.out) =
         (IF calc.arg.source = "original"
            THEN [i \in 1..Len(calc.arg.data) |->
                    CASE calc.arg.data[i] = 64 -> 62
                      [] calc.arg.data[i] = 65 -> 63
                      [] OTHER -> calc.arg.data[i]]
            ELSE calc.arg.data)

\* An attachment of the forwarded message whose base64 text takes three
\* lines, the last one short, and holds "-" and "_".
C23_Witness ==
  /\ calc.fn = "attach"
  /\ calc.arg.source = "original"
  /\ Len(calc.out) = 3
  /\ Len(calc.out[3]) < 76
  /\ \E i \in 1..Len(calc.arg.data) : calc.arg.data[i] \in {64, 65}

\* An uploaded file whose base64 text fills its lines exactly.
C23_WitnessExact ==
  /\ calc.fn = "attach"
  /\ calc.arg.source = "file"
  /\ Len(calc.out) = 2
  /\ Len(calc.out[2]) = 76

(***************************************************************************)
(* The AI termination claim, checked under SpecAILive.                     *)
(***************************************************************************)
\* The model calls a request has made.
Invocations(a) == Cardinality({i \in 1..Len(a.tried) : a.tried[i].sent})

\* C24: an AI request makes at most 1 + 3 model calls, 3 being the length
\* of the fallback chain, whatever fails, and ends with a response.
C24_BoundedAttemptsThenResponse ==
  /\ [](Invocations(ai) <= 1 + 3 /\ Len(ai.tried) <= 1 + 3)
  /\ (ai.pc = "start") ~> (ai.pc = "done" /\ ai.status # 0)

\* A request whose requested model and whole chain failed, answered after
\* four calls.
C24_Witness ==
  /\ ai.pc = "done"
  /\ ai.handler = "handleEmailQuery"
  /\ Invocations(ai) = 4
  /\ \A i \in 1..4 : ai.tried[i].res = "fail"
  /\ ai.status = 200

(***************************************************************************)
(* The prompt claim, checked under SpecPrompt.                             *)
(***************************************************************************)
\* C25: two requests whose emails agree on subject, from, to, date and
\* preview get the same prompt and the same sequence of model calls,
\* whatever their emails' other fields are.
C25_PromptFromFiveFields ==
  calc.fn = "prompts" =>
    ( ( /\ calc.arg.first.subject = calc.arg.second.subject
        /\ calc.arg.first.from = calc.arg.second.from
        /\ calc.arg.first.to = calc.arg.second.to
        /\ calc.arg.first.date = calc.arg.second.date
        /\ calc.arg.first.preview = calc.arg.second.preview )
      => ( /\ calc.out.first.prompt = calc.out.second.prompt
           /\ calc.out.first.calls = calc.out.second.calls ) )

\* Two requests whose emails differ in body, labels and id, each with two
\* model calls made.
C25_Witness ==
  /\ calc.fn = "prompts"
  /\ calc.arg.first.subject = calc.arg.second.subject
  /\ calc.arg.first.preview = calc.arg.second.preview
  /\ calc.arg.first.body # calc.arg.second.body
  /\ calc.arg.first.labels # calc.arg.second.labels
  /\ calc.arg.first.id # calc.arg.second.id
  /\ Len(calc.out.first.calls) = 2
  /\ calc.out.first.calls = calc.out.second.calls

(***************************************************************************)
(* The interceptor claims, checked under SpecAxios.                        *)
(***************************************************************************)
\* C26: when the refresh fails, every request that was queued behind it
\* is rejected with its original 401 error and is not sent again.
C26_QueuedRejectedOnRefreshFailure ==
  ax.event.kind = "refreshFailed" =>
    \A r \in ax.event.waiting :
      ax.reqs[r].pc = "rejected" /\ ax.reqs[r].error = "401"

\* C27: a request that received 401 is sent again at most once, whether
\* it started the refresh or was queued behind one, and a failed refresh
\* starts no other refresh.
C27_ResentAtMostOnce ==
  /\ \A r \in Reqs : ax.reqs[r].sends <= 1 + 1
  /\ ax.event.kind = "refreshFailed" => ax.posts = 0

\* C28: at most one refresh is in flight; with none in flight the flag is
\* down, nobody is subscribed and every subscription made has been
\* answered exactly once.
C28_SingleRefreshInFlight ==
  /\ ax.posts <= 1
  /\ \A r \in Reqs :
       /\ ax.reqs[r].notified <= ax.reqs[r].subscribed
       /\ ax.reqs[r].subscribed <= ax.reqs[r].notified + 1
  /\ ax.posts = 0 =>
       /\ ~ax.isRefreshing
       /\ ax.refreshSubscribers = <<>>
       /\ \A r \in Reqs : ax.reqs[r].notified = ax.reqs[r].subscribed

\* A second refresh has settled after two requests waited behind the
\* first one and one of them behind the second.
C28_Witness ==
  /\ ax.posts = 0
  /\ ax.event.kind \in {"refreshed", "refreshFailed"}
  /\ ax.event.waiting # {}
  /\ \E r \in Reqs : ax.reqs[r].notified = 2
  /\ \E r \in Reqs : ax.reqs[r].notified = 1

\* Two requests wait behind a refresh in flight.
C28_WitnessWaiting ==
  /\ ax.posts = 1
  /\ ax.isRefreshing
  /\ Len(ax.refreshSubscribers) = 2

(***************************************************************************)
(* The batch claim, checked under SpecBatch.                               *)
(***************************************************************************)
\* The ids the loop has finished with.
Finished(b) == {b.ids[j] : j \in 1..(b.i - 1)}

C29_WitnessRejected ==
  batch.pc = "done" /\ batch.status = 400 /\ batch.calls = 0

(***************************************************************************)
(* The missing-refresh-token claim, checked under SpecMail.                *)
(***************************************************************************)
\* C30: for an Outlook user with no stored refresh token, which is what
\* the Microsoft callback leaves, refreshTokenByProvider sends no token
\* request and changes no token field, and a call answered 401 is
\* attempted once: the request ends at the refresh with an error.
C30_NoRefreshTokenNoRetry ==
  (user.provider = "outlook" /\ ~KeepsRefresh("outlook", TRUE)
     /\ user.refreshToken = 0) =>
    /\ req.posted = 0
    /\ issued = 1
    /\ user.microsoftAccessToken <= 1
    /\ \A c \in Calls(req) :
         (Len(req.attempts[c]) >= 1 /\ Results(req, c)[1] = "401") =>
           /\ Len(req.attempts[c]) = 1
           /\ req.call = c
           /\ \/ req.pc = "refresh"
              \/ /\ req.pc = "done"
                 /\ req.status = CatchStatus
                 /\ req.failedAt = "refresh"

\* The second call of an operation of such a user was answered 401 and
\* the request has ended, no token request sent.
C30_Witness ==
  /\ user.provider = "outlook"
  /\ user.refreshToken = 0
  /\ req.pc = "done"
  /\ req.status = CatchStatus
  /\ req.call = 2
  /\ Results(req, 1) = <<"ok">>
  /\ Results(req, 2) = <<"401">>
  /\ req.refreshes[2] = 1
  /\ req.posted = 0

====
